---------------------------- MODULE Spec2Model ----------------------------
(***************************************************************************)
(* A model of burp (src/burp.c): the command-line client that reads its   *)
(* configuration file, parses its options, logs in to the AUR (by cookie, *)
(* falling back to the password) and uploads every target.                *)
(*                                                                         *)
(* C strings are sequences of one-character strings, so that trimming,    *)
(* splitting and strcmp are computed character by character.  The session *)
(* client (aur_new, aur_login, aur_upload) is outside the repository: its *)
(* return values are drawn nondeterministically where main calls it.      *)
(***************************************************************************)
EXTENDS Integers, Sequences, FiniteSets, TLC

VARIABLES
  pc,                   \* where main is
  arg_domain,           \* src/burp.c:41
  arg_username,         \* src/burp.c:42
  arg_password,         \* src/burp.c:43
  arg_cookiefile,       \* src/burp.c:44
  arg_category,         \* src/burp.c:45
  arg_persist_cookies,  \* src/burp.c:46
  conf,                 \* the lines fgets has returned so far, in order
  argv,                 \* the options of the command line, in order
  optind,               \* how many of them getopt_long has consumed
  targets,              \* argv[1..argc-1] after main's shift (lines 312-313)
  aur,                  \* what main has set on the client (lines 315-328)
  r,                    \* main's r
  i,                    \* main's loop index
  trace,                \* calls to the client and lines printed, in order
  status                \* the exit status, once main has returned

vars == << pc, arg_domain, arg_username, arg_password, arg_cookiefile,
           arg_category, arg_persist_cookies, conf, argv, optind, targets,
           aur, r, i, trace, status >>

-----------------------------------------------------------------------------
(* Bounds of the model. *)

MaxInput == 3     \* configuration lines read plus options on the command line
MaxTargets == 3   \* targets that follow the options
MaxPadded == 2    \* lines read in SpecTrim

(* errno values (Linux, asm-generic/errno.h), named where burp.c uses them. *)
ENOENT == 2
EIO == 5
ENOMEM == 12
EACCES == 13
EINVAL == 22
EBADR == 53
ENOKEY == 126
EKEYEXPIRED == 127
EKEYREJECTED == 129

EXIT_SUCCESS == 0
EXIT_FAILURE == 1

(* The null pointer: a value no C string equals (a string's elements are   *)
(* single characters).                                                     *)
NULL == << "(null)" >>

(* No exit status yet: main has not returned. *)
Running == -1

-----------------------------------------------------------------------------
(* Characters and the libc string functions burp.c relies on. *)

CharCode ==
  ("\t" :> 9) @@ ("\n" :> 10) @@ (" " :> 32) @@ ("#" :> 35) @@ ("-" :> 45) @@ ("/" :> 47) @@
  ("0" :> 48) @@ ("1" :> 49) @@ ("2" :> 50) @@ ("3" :> 51) @@ ("4" :> 52) @@
  ("5" :> 53) @@ ("6" :> 54) @@ ("7" :> 55) @@ ("8" :> 56) @@ ("9" :> 57) @@
  ("=" :> 61) @@ ("C" :> 67) @@ ("D" :> 68) @@ ("E" :> 69) @@ ("F" :> 70) @@
  ("G" :> 71) @@ ("K" :> 75) @@ ("P" :> 80) @@ ("U" :> 85) @@ ("a" :> 97) @@
  ("b" :> 98) @@ ("c" :> 99) @@ ("d" :> 100) @@ ("e" :> 101) @@
  ("f" :> 102) @@ ("g" :> 103) @@ ("h" :> 104) @@ ("i" :> 105) @@
  ("k" :> 107) @@ ("l" :> 108) @@ ("m" :> 109) @@ ("n" :> 110) @@
  ("o" :> 111) @@ ("p" :> 112) @@ ("r" :> 114) @@ ("s" :> 115) @@
  ("t" :> 116) @@ ("u" :> 117) @@ ("v" :> 118) @@ ("w" :> 119) @@
  ("x" :> 120) @@ ("y" :> 121) @@ ("z" :> 122) @@ ("|" :> 124) @@
  ("~" :> 126)

(* strcmp: the difference of the first pair of bytes that differ, the      *)
(* terminating NUL (0) included.                                           *)
RECURSIVE strcmp(_, _)
strcmp(a, b) ==
  LET ca == IF a = << >> THEN 0 ELSE CharCode[Head(a)]
      cb == IF b = << >> THEN 0 ELSE CharCode[Head(b)]
  IN  IF ca # cb THEN ca - cb
      ELSE IF ca = 0 THEN 0
      ELSE strcmp(Tail(a), Tail(b))

streq(a, b) == strcmp(a, b) = 0

(* isspace in the C locale. *)
isspace(c) == c \in {" ", "\n", "\t", "\r"}

-----------------------------------------------------------------------------
(* The category table and its lookup. *)

categories ==
  << [name |-> <<"d","a","e","m","o","n","s">>, id |-> <<"2">>],
     [name |-> <<"d","e","v","e","l">>, id |-> <<"3">>],
     [name |-> <<"e","d","i","t","o","r","s">>, id |-> <<"4">>],
     [name |-> <<"e","m","u","l","a","t","o","r","s">>, id |-> <<"5">>],
     [name |-> <<"f","o","n","t","s">>, id |-> <<"2","0">>],
     [name |-> <<"g","a","m","e","s">>, id |-> <<"6">>],
     [name |-> <<"g","n","o","m","e">>, id |-> <<"7">>],
     [name |-> <<"i","1","8","n">>, id |-> <<"8">>],
     [name |-> <<"k","d","e">>, id |-> <<"9">>],
     [name |-> <<"k","e","r","n","e","l","s">>, id |-> <<"1","9">>],
     [name |-> <<"l","i","b">>, id |-> <<"1","0">>],
     [name |-> <<"m","o","d","u","l","e","s">>, id |-> <<"1","1">>],
     [name |-> <<"m","u","l","t","i","m","e","d","i","a">>, id |-> <<"1","2">>],
     [name |-> <<"n","e","t","w","o","r","k">>, id |-> <<"1","3">>],
     [name |-> <<"o","f","f","i","c","e">>, id |-> <<"1","4">>],
     [name |-> <<"s","c","i","e","n","c","e">>, id |-> <<"1","5">>],
     [name |-> <<"s","y","s","t","e","m">>, id |-> <<"1","6">>],
     [name |-> <<"x","1","1">>, id |-> <<"1","7">>],
     [name |-> <<"x","f","c","e">>, id |-> <<"1","8">>] >>

(* Mutant: the names are compared without regard to case (strcasecmp). *)
ToLower(c) == IF c >= 65 /\ c <= 90 THEN c + 32 ELSE c

RECURSIVE strcasecmp(_, _)
strcasecmp(a, b) ==
  LET ca == IF a = << >> THEN 0 ELSE ToLower(CharCode[Head(a)])
      cb == IF b = << >> THEN 0 ELSE ToLower(CharCode[Head(b)])
  IN  IF ca # cb THEN ca - cb
      ELSE IF ca = 0 THEN 0
      ELSE strcasecmp(Tail(a), Tail(b))

category_compare_nocase(left, right) == strcasecmp(left.name, right.name)

category_compare(left, right) == strcmp(left.name, right.name)

(* bsearch over base[l+1 .. u] (0-based l, u as in libc): the middle       *)
(* element is compared with the key and one half is dropped.               *)
RECURSIVE bsearch(_, _, _, _)
bsearch(key, base, l, u) ==
  IF l >= u THEN 0
  ELSE LET idx == (l + u) \div 2
           cmp == category_compare(key, base[idx + 1])
       IN  IF cmp < 0 THEN bsearch(key, base, l, idx)
           ELSE IF cmp > 0 THEN bsearch(key, base, idx + 1, u)
           ELSE idx + 1

(* Mutant: the name is handed on as it was given. *)
category_validate_raw(cat) == cat

category_validate(cat) ==
  LET key == [name |-> cat, id |-> NULL]
      res == bsearch(key, categories, 0, Len(categories))
  IN  IF res # 0 THEN categories[res].id ELSE NULL

-----------------------------------------------------------------------------
(* find_config_file: the path under XDG_CONFIG_HOME, else under HOME, else *)
(* NULL; NULL too, after a message, when asprintf cannot allocate.  xdg    *)
(* and home are what getenv returns, alloc whether asprintf succeeds.      *)

BurpConf == <<"/","b","u","r","p","/","b","u","r","p",".","c","o","n","f">>
DotConfigBurpConf == <<"/",".","c","o","n","f","i","g","/","b","u","r","p","/","b","u","r","p",".","c","o","n","f">>

find_config_file(xdg, home, alloc) ==
  IF xdg # NULL
    THEN IF ~alloc
           THEN [out |-> NULL, err |-> << "error: failed to allocate memory" >>]
           ELSE [out |-> xdg \o BurpConf, err |-> << >>]
  ELSE IF home # NULL
    THEN IF ~alloc
           THEN [out |-> NULL, err |-> << "error: failed to allocate memory" >>]
           ELSE [out |-> home \o DotConfigBurpConf, err |-> << >>]
  ELSE [out |-> NULL, err |-> << >>]

-----------------------------------------------------------------------------
(* strtrim: the string with leading and trailing whitespace removed (the   *)
(* code edits it in place and returns the new length); NULL and the empty  *)
(* string are left alone.                                                  *)

RECURSIVE SkipSpace(_)
SkipSpace(str) ==
  IF str # << >> /\ isspace(Head(str)) THEN SkipSpace(Tail(str)) ELSE str

RECURSIVE DropTrailingSpace(_)
DropTrailingSpace(str) ==
  IF str # << >> /\ isspace(str[Len(str)])
    THEN DropTrailingSpace(SubSeq(str, 1, Len(str) - 1))
    ELSE str

(* Mutant: only the leading whitespace is removed. *)
strtrim_left(str) ==
  IF str = NULL \/ str = << >> THEN str ELSE SkipSpace(str)

strtrim(str) ==
  IF str = NULL \/ str = << >> THEN str
  ELSE LET left == SkipSpace(str)
       IN  IF left = << >> THEN << >> ELSE DropTrailingSpace(left)

(* strsep(&value, "="): the token before the first '=' and what follows    *)
(* it, or NULL when the string holds no '='.                               *)
RECURSIVE IndexOf(_, _, _)
IndexOf(str, c, from) ==
  IF from > Len(str) THEN 0
  ELSE IF str[from] = c THEN from
  ELSE IndexOf(str, c, from + 1)

strsep(str, c) ==
  LET at == IndexOf(str, c, 1)
  IN  IF at = 0 THEN [key |-> str, value |-> NULL]
      ELSE [key |-> SubSeq(str, 1, at - 1),
            value |-> SubSeq(str, at + 1, Len(str))]

-----------------------------------------------------------------------------
(* wordexp(in, &wexp, WRDE_NOCMD), for the characters of the model: an     *)
(* unquoted '|' (or newline) is WRDE_BADCHAR; otherwise the string is      *)
(* split into words at whitespace and a word's leading "~" (alone or       *)
(* before '/') becomes the home directory.  nospace: an allocation inside  *)
(* wordexp fails.  The codes are positive (wordexp.h).                     *)

WRDE_NOSPACE == 1
WRDE_BADCHAR == 2

HomeDir == << "/", "h" >>

RECURSIVE Words(_)
Words(str) ==
  LET s == SkipSpace(str)
      RECURSIVE WordEnd(_)
      WordEnd(k) == IF k > Len(s) \/ isspace(s[k]) THEN k ELSE WordEnd(k + 1)
  IN  IF s = << >> THEN << >>
      ELSE LET e == WordEnd(1)
           IN  << SubSeq(s, 1, e - 1) >> \o Words(SubSeq(s, e, Len(s)))

TildeExpand(word) ==
  IF word # << >> /\ Head(word) = "~" /\ (Len(word) = 1 \/ word[2] = "/")
    THEN HomeDir \o Tail(word)
    ELSE word

wordexp(in, nospace) ==
  IF nospace THEN [rc |-> WRDE_NOSPACE, we_wordv |-> << >>]
  ELSE IF \E k \in 1..Len(in) : in[k] \in {"|", "\n"}
    THEN [rc |-> WRDE_BADCHAR, we_wordv |-> << >>]
  ELSE LET ws == Words(in)
       IN  [rc |-> 0, we_wordv |-> [k \in 1..Len(ws) |-> TildeExpand(ws[k])]]

(* What a read through an invalid pointer can do: stop the process, or    *)
(* yield whatever bytes are there.                                         *)
Undefined == {"SIGSEGV", "garbage"}
Garbage == << "?" >>

(* strdup: a copy, NULL when malloc fails; strdup(NULL) reads through the  *)
(* null pointer, which faults.                                             *)
strdup(str, e) ==
  IF str = NULL THEN [fault |-> TRUE, v |-> NULL]
  ELSE IF ~e.alloc THEN [fault |-> FALSE, v |-> NULL]
  ELSE [fault |-> FALSE, v |-> str]

(* shell_expand: wordexp's first word, copied.  The test for failure is    *)
(* rc < 0; after a failed wordexp (rc > 0) wexp holds no result and        *)
(* we_wordv[0] is read all the same, and after an expansion to no word     *)
(* we_wordv[0] is NULL.                                                    *)
shell_expand(in, e) ==
  IF in = NULL THEN [fault |-> TRUE, v |-> NULL]
  ELSE LET wexp == wordexp(in, e.nospace)
       IN  IF wexp.rc < 0 THEN [fault |-> FALSE, v |-> NULL]
           ELSE IF wexp.rc # 0
             THEN IF e.ub = "SIGSEGV" THEN [fault |-> TRUE, v |-> NULL]
                  ELSE strdup(Garbage, e)
           ELSE IF wexp.we_wordv = << >> THEN strdup(NULL, e)
           ELSE strdup(wexp.we_wordv[1], e)

(* What the environment decides while one line is processed. *)
Env == [alloc : BOOLEAN, nospace : BOOLEAN, ub : Undefined]

-----------------------------------------------------------------------------
(* What the program prints and the calls it makes on the client, as the    *)
(* events of trace.                                                        *)

Stderr(m) == [ev |-> "stderr", msg |-> m]
StderrSeq(ms) == [k \in 1..Len(ms) |-> Stderr(ms[k])]

(* Mutant: only the header is printed. *)
usage_categories_header == << Stderr("Valid categories:") >>

(* usage_categories: the header, then every name of the table in order. *)
usage_categories ==
  << Stderr("Valid categories:") >> \o
  [k \in 1..Len(categories) |->
     [ev |-> "stderr", msg |-> "\t%s", name |-> categories[k].name]]

(* usage: the help text. *)
usage == << Stderr("Usage: burp [options] targets...") >>

(* Mutant: every error gets the message of the default case. *)
make_login_error_generic(err) ==
  [ev |-> "stderr", msg |-> "error: failed to login to AUR: %s", errno |-> -err]

(* make_login_error: the message for the login's error; the caller         *)
(* returns EXIT_FAILURE.                                                   *)
make_login_error(err) ==
  CASE -err = EBADR -> Stderr("error: insufficient credentials provided to login.")
    [] -err = EACCES -> Stderr("error: bad username or password.")
    [] -err = EKEYEXPIRED -> Stderr("error: required login cookie has expired.")
    [] -err = EKEYREJECTED -> Stderr("error: login cookie not accepted.")
    [] OTHER -> [ev |-> "stderr", msg |-> "error: failed to login to AUR: %s",
                 errno |-> -err]

-----------------------------------------------------------------------------
(* read_config_file, called by main (lines 306-307).                       *)

K_User == <<"U","s","e","r">>
K_Password == <<"P","a","s","s","w","o","r","d">>
K_Cookies == <<"C","o","o","k","i","e","s">>
K_Persist == <<"P","e","r","s","i","s","t">>

(* Mutant: a file that does not exist is an error like the others. *)
open_failure_strict(err) == -err

(* Lines 144-153: what read_config_file returns when fopen has failed     *)
(* with errno err: the failure, unless the file does not exist.            *)
open_failure(err) == IF err # ENOENT THEN -err ELSE 0

(* Lines 136-153: the path is found and the file opened.  err is fopen's   *)
(* errno, 0 when the file was opened.  Line 306: main returns EXIT_FAILURE *)
(* when read_config_file returns less than 0.                              *)
OpenConfig(xdg, home, alloc, err) ==
  /\ pc = "read_config"
  /\ LET config_path == find_config_file(xdg, home, alloc)
         fopen == [ev |-> "fopen", path |-> config_path.out, errno |-> err]
         ret == IF config_path.out = NULL THEN 0
                ELSE IF err # 0 THEN open_failure(err)
                ELSE 0
     IN  /\ trace' =
              IF config_path.out = NULL
                THEN trace \o StderrSeq(config_path.err) \o
                     << Stderr("warning: unable to determine location of config file. Skipping.") >>
              ELSE IF err # 0 /\ ret # 0
                THEN trace \o
                     << fopen, [ev |-> "stderr",
                                msg |-> "error: failed to open %s: %s",
                                path |-> config_path.out, errno |-> err] >>
              ELSE Append(trace, fopen)
         /\ pc' = IF ret < 0 THEN "exit"
                  ELSE IF config_path.out # NULL /\ err = 0 THEN "fgets"
                  ELSE "parseargs"
         /\ status' = IF ret < 0 THEN EXIT_FAILURE ELSE status
  /\ UNCHANGED << arg_domain, arg_username, arg_password, arg_cookiefile,
                  arg_category, arg_persist_cookies, conf, argv, optind,
                  targets, aur, r, i >>

(* Lines 161-168 and the tests of lines 162-188: which parameter the line  *)
(* names ("" when it is blank, a comment or another key) and the value     *)
(* strsep and strtrim leave.                                               *)
config_line(line) ==
  LET trimmed == strtrim(line)
  IN  IF Len(trimmed) = 0 \/ trimmed[1] = "#"
        THEN [field |-> "", value |-> NULL]
      ELSE LET kv == strsep(trimmed, "=")
               key == strtrim(kv.key)
               value == strtrim(kv.value)
           IN  [field |-> IF streq(key, K_User) THEN "User"
                          ELSE IF streq(key, K_Password) THEN "Password"
                          ELSE IF streq(key, K_Cookies) THEN "Cookies"
                          ELSE IF streq(key, K_Persist) THEN "Persist"
                          ELSE "",
                value |-> value]

(* Lines 171, 177 and 183: the copy that is stored. *)
config_value(cl, e) ==
  IF cl.field \in {"User", "Password"} THEN strdup(cl.value, e)
  ELSE IF cl.field = "Cookies" THEN shell_expand(cl.value, e)
  ELSE [fault |-> FALSE, v |-> << >>]

(* Lines 155-191, one turn of the loop: fgets returned line. *)
ReadLine(line, e) ==
  /\ pc = "fgets"
  /\ Len(conf) + Len(argv) < MaxInput
  /\ conf' = Append(conf, line)
  /\ \E cl \in {config_line(line)} : \E v \in {config_value(cl, e)} :
       /\ pc' = IF v.fault THEN "crashed" ELSE "fgets"
       /\ trace' = IF ~v.fault /\ v.v = NULL
                     THEN Append(trace, Stderr("error: failed to allocate memory"))
                     ELSE trace
       /\ arg_username' = IF cl.field = "User" /\ ~v.fault /\ v.v # NULL
                            THEN v.v ELSE arg_username
       /\ arg_password' = IF cl.field = "Password" /\ ~v.fault /\ v.v # NULL
                            THEN v.v ELSE arg_password
       /\ arg_cookiefile' = IF cl.field = "Cookies" /\ ~v.fault /\ v.v # NULL
                              THEN v.v ELSE arg_cookiefile
       /\ arg_persist_cookies' = IF cl.field = "Persist" THEN TRUE
                                 ELSE arg_persist_cookies
  /\ UNCHANGED << arg_domain, arg_category, argv, optind, targets, aur, r, i,
                  status >>

(* Line 155 and 193: fgets returns NULL and read_config_file returns 0. *)
EndOfFile ==
  /\ pc = "fgets"
  /\ pc' = "parseargs"
  /\ UNCHANGED << arg_domain, arg_username, arg_password, arg_cookiefile,
                  arg_category, arg_persist_cookies, conf, argv, optind,
                  targets, aur, r, i, trace, status >>

-----------------------------------------------------------------------------
(* parseargs, called by main (lines 309-313).  An option is a record       *)
(* [opt, arg]: opt is the value getopt_long returns for it ("domain" for   *)
(* 128, "?" for an option it does not know), arg its optarg.               *)

(* The words of the command line that an option was written as. *)
OptWords(o) ==
  LET flag == IF o.opt = "domain" THEN <<"-","-","d","o","m","a","i","n">>
              ELSE << "-", o.opt >>
  IN  IF o.arg = NULL THEN << flag >> ELSE << flag, o.arg >>

RECURSIVE RestWords(_, _)
RestWords(av, from) ==
  IF from > Len(av) THEN << >>
  ELSE OptWords(av[from]) \o RestWords(av, from + 1)

(* The targets named after the options: t1, t2, ... *)
Digit == << "1", "2", "3", "4", "5", "6", "7", "8", "9" >>
Positional(n) == [k \in 1..n |-> << "t", Digit[k] >>]

(* Lines 241-274, one turn of the loop: getopt_long returned the next      *)
(* option.  Line 259 ('h') returns 0, so main goes on with what is left of *)
(* the command line (argv + optind) as its targets; n is the number of     *)
(* targets that follow the options.                                        *)
GetOpt(n) ==
  /\ pc = "parseargs"
  /\ optind < Len(argv)
  /\ LET o == argv[optind + 1]
         cat == category_validate(o.arg)
         ret == IF o.opt = "c" /\ cat = NULL THEN -EINVAL
                ELSE IF o.opt \notin {"C", "c", "h", "k", "p", "u", "domain"}
                  THEN -EINVAL
                ELSE 0
     IN  /\ optind' = optind + 1
         /\ arg_cookiefile' = IF o.opt = "C" THEN o.arg ELSE arg_cookiefile
         /\ arg_category' = IF o.opt = "c" THEN cat ELSE arg_category
         /\ arg_persist_cookies' = IF o.opt = "k" THEN TRUE
                                   ELSE arg_persist_cookies
         /\ arg_password' = IF o.opt = "p" THEN o.arg ELSE arg_password
         /\ arg_username' = IF o.opt = "u" THEN o.arg ELSE arg_username
         /\ arg_domain' = IF o.opt = "domain" THEN o.arg ELSE arg_domain
         /\ trace' = IF o.opt = "c" /\ cat = NULL
                       THEN trace \o
                            << [ev |-> "stderr",
                                msg |-> "error: invalid category %s",
                                name |-> o.arg] >> \o usage_categories
                     ELSE IF o.opt = "h" THEN trace \o usage
                     ELSE trace
         /\ pc' = IF ret < 0 THEN "exit"
                  ELSE IF o.opt = "h" THEN "aur_new"
                  ELSE "parseargs"
         /\ status' = IF ret < 0 THEN EXIT_FAILURE ELSE status
         /\ targets' = IF o.opt = "h"
                         THEN RestWords(argv, optind + 2) \o Positional(n)
                         ELSE targets
  /\ UNCHANGED << conf, argv, aur, r, i >>

(* Lines 242-243 and 277: getopt_long returns -1 and parseargs returns 0;  *)
(* main's targets are the n words after the options.                       *)
EndOfOptions(n) ==
  /\ pc = "parseargs"
  /\ optind = Len(argv)
  /\ pc' = "aur_new"
  /\ targets' = Positional(n)
  /\ UNCHANGED << arg_domain, arg_username, arg_password, arg_cookiefile,
                  arg_category, arg_persist_cookies, conf, argv, optind,
                  aur, r, i, trace, status >>

-----------------------------------------------------------------------------
(* main from line 315 on.  The client's functions return 0 or a negative   *)
(* errno.                                                                  *)

AurNewResults == {0, -ENOMEM}
LoginResults == {0, -EKEYEXPIRED, -ENOKEY, -EBADR, -EACCES, -EKEYREJECTED, -EIO}
UploadResults == {0, -EIO, -EACCES}

(* Lines 315-328: the client is created and given the parameters that are  *)
(* set.                                                                    *)
AurNew(ret) ==
  /\ pc = "aur_new"
  /\ r' = ret
  /\ IF ret < 0
       THEN /\ trace' = Append(trace, [ev |-> "stderr",
                                       msg |-> "error: failed to create AUR client: %s",
                                       errno |-> -ret])
            /\ pc' = "exit"
            /\ status' = EXIT_FAILURE
            /\ aur' = aur
       ELSE /\ aur' = [domain |-> arg_domain,
                       username |-> arg_username,
                       password |-> arg_password,
                       cookies |-> arg_cookiefile,
                       persist_cookies |-> arg_persist_cookies]
            /\ pc' = "login"
            /\ UNCHANGED << trace, status >>
  /\ UNCHANGED << arg_domain, arg_username, arg_password, arg_cookiefile,
                  arg_category, arg_persist_cookies, conf, argv, optind,
                  targets, i >>

(* Mutant: both calls are cookie logins. *)
use_credentials_never(call) == FALSE

(* Lines 330 and 339: the second argument of aur_login, at the first call *)
(* and at the second.                                                      *)
use_credentials(call) == call = "relogin"

(* Mutant: the password login is tried after every error. *)
falls_back_always(ret) == ret < 0

(* Lines 332-341: the errors of the cookie login after which the password  *)
(* login is tried.                                                         *)
falls_back(ret) == ret = -EKEYEXPIRED \/ ret = -ENOKEY

(* Mutant: the warning is not printed. *)
fallback_warning_none(ret) == << >>

(* Mutant: the warning is printed before every password login. *)
fallback_warning_always(ret) ==
  << Stderr("warning: Your cookie has expired -- using password login") >>

(* Lines 333-336: what is printed before the password login is tried. *)
fallback_warning(ret) ==
  IF ret = -EKEYEXPIRED
    THEN << Stderr("warning: Your cookie has expired -- using password login") >>
    ELSE << >>

(* Mutant: the error of the login is not looked at. *)
login_failed_never(ret) == FALSE

(* Line 343: the login has failed. *)
login_failed(ret) == ret < 0

(* Lines 330-345 up to the second call: aur_login(aur, false) returned     *)
(* ret.                                                                    *)
Login(ret) ==
  /\ pc = "login"
  /\ r' = ret
  /\ LET call == [ev |-> "aur_login",
                  use_credentials |-> use_credentials("login"), ret |-> ret]
     IN  IF ret < 0 /\ falls_back(ret)
           THEN /\ trace' = trace \o << call >> \o fallback_warning(ret)
                /\ pc' = "relogin"
                /\ UNCHANGED << status, i >>
         ELSE IF login_failed(ret)
           THEN /\ trace' = trace \o << call, make_login_error(ret) >>
                /\ pc' = "exit"
                /\ status' = EXIT_FAILURE
                /\ UNCHANGED i
         ELSE /\ trace' = Append(trace, call)
              /\ pc' = "upload"
              /\ i' = 1
              /\ UNCHANGED status
  /\ UNCHANGED << arg_domain, arg_username, arg_password, arg_cookiefile,
                  arg_category, arg_persist_cookies, conf, argv, optind,
                  targets, aur >>

(* Lines 339-344: aur_login(aur, true) returned ret. *)
Relogin(ret) ==
  /\ pc = "relogin"
  /\ r' = ret
  /\ LET call == [ev |-> "aur_login",
                  use_credentials |-> use_credentials("relogin"), ret |-> ret]
     IN  IF login_failed(ret)
           THEN /\ trace' = trace \o << call, make_login_error(ret) >>
                /\ pc' = "exit"
                /\ status' = EXIT_FAILURE
                /\ UNCHANGED i
           ELSE /\ trace' = Append(trace, call)
                /\ pc' = "upload"
                /\ i' = 1
                /\ UNCHANGED status
  /\ UNCHANGED << arg_domain, arg_username, arg_password, arg_cookiefile,
                  arg_category, arg_persist_cookies, conf, argv, optind,
                  targets, aur >>

(* Mutant: the last error replaces the first. *)
first_error_last(rr, k) == k

(* Lines 355-356: r after an upload that returned k # 0. *)
first_error(rr, k) == IF rr = 0 THEN k ELSE rr

(* Mutant: the loop is left at the first upload that fails. *)
next_index_break(idx, k) == IF k # 0 THEN Len(targets) + 1 ELSE idx + 1

(* Line 347: the index of the next turn of the loop, after the upload of   *)
(* targets[idx] returned k.                                                *)
next_index(idx, k) == idx + 1

(* Mutant: every upload is reported as a success. *)
upload_report_success(path, k) ==
  [ev |-> "stdout", msg |-> "success: uploaded %s", path |-> path]

(* Lines 350-354: what is printed when aur_upload has returned k for path. *)
upload_report(path, k) ==
  IF k = 0
    THEN [ev |-> "stdout", msg |-> "success: uploaded %s", path |-> path]
    ELSE [ev |-> "stderr", msg |-> "failed to upload %s: %s", path |-> path,
          errno |-> -k]

(* Lines 347-358, one turn of the loop: aur_upload returned k for          *)
(* targets[i].                                                             *)
Upload(k) ==
  /\ pc = "upload"
  /\ i <= Len(targets)
  /\ LET call == [ev |-> "aur_upload", path |-> targets[i],
                  category |-> arg_category, ret |-> k]
     IN  /\ trace' = trace \o << call, upload_report(targets[i], k) >>
         /\ r' = IF k = 0 THEN r ELSE first_error(r, k)
  /\ i' = next_index(i, k)
  /\ UNCHANGED << pc, arg_domain, arg_username, arg_password, arg_cookiefile,
                  arg_category, arg_persist_cookies, conf, argv, optind,
                  targets, aur, status >>

(* Mutant: main returns r as it is. *)
exit_status_raw(rr) == rr

(* Line 362: main's return value. *)
exit_status(rr) == IF rr = 0 THEN EXIT_SUCCESS ELSE EXIT_FAILURE

(* Lines 360-362: the loop is over and main returns. *)
Finish ==
  /\ pc = "upload"
  /\ i > Len(targets)
  /\ pc' = "exit"
  /\ status' = exit_status(r)
  /\ UNCHANGED << arg_domain, arg_username, arg_password, arg_cookiefile,
                  arg_category, arg_persist_cookies, conf, argv, optind,
                  targets, aur, r, i, trace >>

-----------------------------------------------------------------------------
(* The inputs.                                                             *)

SeqsUpTo(S, n) == UNION { [1..k -> S] : k \in 0..n }

Opt(o, a) == [opt |-> o, arg |-> a]

(* The options of the command line. *)
Options ==
  { Opt("u", <<"x">>), Opt("p", <<"y">>), Opt("C", <<"/","k">>),
    Opt("k", NULL), Opt("domain", <<"d">>),
    Opt("c", <<"g","a","m","e","s">>), Opt("c", <<"h","e","l","p">>),
    Opt("h", NULL), Opt("?", NULL) }

(* The lines of the configuration file. *)
L_User == <<"U","s","e","r","=","a","\n">>
L_UserSpaced == <<" "," ","U","s","e","r"," ","="," ","b"," "," ","\n">>
L_Password == <<"P","a","s","s","w","o","r","d","=","p","\n">>
L_Cookies == <<"C","o","o","k","i","e","s"," ","="," ","~","/","c","\n">>
L_CookiesBar == <<"C","o","o","k","i","e","s","=","a","|","b","\n">>
L_Persist == <<"P","e","r","s","i","s","t","\n">>
L_Comment == <<" ","#","U","s","e","r","=","z","\n">>

Lines == { L_User, L_UserSpaced, L_Password, L_Cookies, L_CookiesBar,
           L_Persist, L_Comment }

(* What getenv returns for XDG_CONFIG_HOME and for HOME, and fopen's errno *)
(* (0: the file is open).                                                  *)
XdgValues == { NULL, <<"/","x">> }
HomeValues == { NULL, HomeDir }
FopenErrnos == { 0, ENOENT, EACCES, EIO }

(* The state in which main starts, on a command line with the options av.  *)
Start(av) ==
  /\ pc = "read_config"
  /\ arg_domain = <<"a","u","r",".","a","r","c","h","l","i","n","u","x",".","o","r","g">>
  /\ arg_username = NULL
  /\ arg_password = NULL
  /\ arg_cookiefile = NULL
  /\ arg_category = << "1" >>
  /\ arg_persist_cookies = FALSE
  /\ conf = << >>
  /\ argv = av
  /\ optind = 0
  /\ targets = << >>
  /\ aur = [domain |-> NULL, username |-> NULL, password |-> NULL,
            cookies |-> NULL, persist_cookies |-> FALSE]
  /\ r = 0
  /\ i = 0
  /\ trace = << >>
  /\ status = Running

-----------------------------------------------------------------------------
(* Spec: the whole program.  So that the login and the uploads can be      *)
(* explored with every result, the command line and the configuration      *)
(* file are drawn from the few options and lines that decide whether and   *)
(* with which category main gets there, and the command line holds no      *)
(* option after the one at which parseargs returns.                        *)

MainOptions ==
  { Opt("c", <<"g","a","m","e","s">>), Opt("c", <<"k","d","e">>),
    Opt("c", <<"h","e","l","p">>), Opt("h", NULL), Opt("?", NULL) }
MainLines == { L_User }
MainEnv == { e \in Env : ~e.nospace /\ e.ub = "SIGSEGV" }

(* parseargs returns when it has read o (lines 254, 259, 273). *)
Returns(o) ==
  \/ o.opt \in {"h", "?"}
  \/ o.opt = "c" /\ category_validate(o.arg) = NULL

MainArgv ==
  { av \in SeqsUpTo(MainOptions, MaxInput) :
      \A k \in 1..Len(av) - 1 : ~Returns(av[k]) }

Init == \E av \in MainArgv : Start(av)

Startup(lines, envs, tmax) ==
  \/ \E xdg \in XdgValues, home \in HomeValues, alloc \in BOOLEAN,
        err \in FopenErrnos : OpenConfig(xdg, home, alloc, err)
  \/ \E line \in lines, e \in envs : ReadLine(line, e)
  \/ EndOfFile
  \/ \E n \in 0..tmax : GetOpt(n)
  \/ \E n \in 0..tmax : EndOfOptions(n)
  \/ \E ret \in AurNewResults : AurNew(ret)

Next ==
  \/ Startup(MainLines, MainEnv, MaxTargets)
  \/ \E ret \in LoginResults : Login(ret)
  \/ \E ret \in LoginResults : Relogin(ret)
  \/ \E k \in UploadResults : Upload(k)
  \/ Finish

Spec == Init /\ [][Next]_vars

(* SpecCategory: the start of the program on a command line that holds    *)
(* one -c option, for the names of the table and names close to them.      *)

CategoryNames == { categories[k].name : k \in 1..Len(categories) }

Probes ==
  CategoryNames
  \cup { SubSeq(n, 1, Len(n) - 1) : n \in CategoryNames }
  \cup { n \o << "s" >> : n \in CategoryNames }
  \cup { <<"G","a","m","e","s">>, <<"K","D","E">>, <<"h","e","l","p">>, <<"a">>, <<"z">>, << >> }

InitCategory == \E name \in Probes : Start(<< Opt("c", name) >>)

NextCategory ==
  \/ \E xdg \in XdgValues, home \in HomeValues, alloc \in BOOLEAN,
        err \in FopenErrnos : OpenConfig(xdg, home, alloc, err)
  \/ EndOfFile
  \/ GetOpt(0)

SpecCategory == InitCategory /\ [][NextCategory]_vars

(* SpecResolve: the program up to its first call of aur_login, on every    *)
(* command line and every configuration file within the bounds, with no    *)
(* target after the options.                                               *)

InitResolve == \E av \in SeqsUpTo(Options, MaxInput) : Start(av)

NextResolve == Startup(Lines, Env, 0)

SpecResolve == InitResolve /\ [][NextResolve]_vars

(* SpecConfig: the program up to its call of aur_new on an empty command   *)
(* line, with the lines of Lines and lines that give no value: a Cookies   *)
(* line whose value is empty, and User and Cookies lines without '='.      *)

L_CookiesEmpty == <<"C","o","o","k","i","e","s","=","\n">>
L_UserBare == <<"U","s","e","r","\n">>
L_CookiesBare == <<"C","o","o","k","i","e","s","\n">>

ConfigLines == Lines \cup { L_CookiesEmpty, L_UserBare, L_CookiesBare }

InitConfig == Start(<< >>)

NextConfig ==
  \/ \E xdg \in XdgValues, home \in HomeValues, alloc \in BOOLEAN,
        err \in FopenErrnos : OpenConfig(xdg, home, alloc, err)
  \/ \E line \in ConfigLines, e \in Env : ReadLine(line, e)
  \/ EndOfFile
  \/ EndOfOptions(0)
  \/ \E ret \in AurNewResults : AurNew(ret)

SpecConfig == InitConfig /\ [][NextConfig]_vars

(* SpecTrim: read_config_file on lines written with and without          *)
(* whitespace around the key and around the value, on blank lines and on   *)
(* comments; no allocation fails.                                          *)

Pads == { << >>, << " ", "\t" >> }

V_User == <<"a","l","i","c","e">>
V_Password == <<"p"," ","w">>
V_Cookies == <<"/","c">>

KeyValues ==
  { [key |-> K_User, value |-> V_User],
    [key |-> K_Password, value |-> V_Password],
    [key |-> K_Cookies, value |-> V_Cookies] }

(* The line "<lead>Key<m1>=<m2>Value<trail>\n". *)
Padded(p) ==
  p.lead \o p.kv.key \o p.m1 \o << "=" >> \o p.m2 \o p.kv.value \o p.trail
  \o << "\n" >>

PaddedParts == [lead : Pads, kv : KeyValues, m1 : Pads, m2 : Pads, trail : Pads]
PaddedLines == { Padded(p) : p \in PaddedParts }

PersistLines == { lead \o K_Persist \o trail \o << "\n" >> : lead, trail \in Pads }

IgnoredLines ==
  { << "\n" >>, << " ", "\t", "\n" >>, << "#", "\n" >>,
    << " ", "\t", "#", " " >> \o K_User \o << "=", "z", "\n" >> }

TrimLines == PaddedLines \cup PersistLines \cup IgnoredLines

TrimEnv == [alloc |-> TRUE, nospace |-> FALSE, ub |-> "SIGSEGV"]

ReadPadded(line) ==
  /\ Len(conf) < MaxPadded
  /\ ReadLine(line, TrimEnv)

InitTrim == Start(<< >>)

NextTrim ==
  \/ \E xdg \in XdgValues, home \in HomeValues, alloc \in BOOLEAN,
        err \in FopenErrnos : OpenConfig(xdg, home, alloc, err)
  \/ \E line \in TrimLines : ReadPadded(line)
  \/ EndOfFile

SpecTrim == InitTrim /\ [][NextTrim]_vars

-----------------------------------------------------------------------------
(* The claims.                                                             *)

Select(ev) == SelectSeq(trace, LAMBDA e : e.ev = ev)

(* The calls of aur_login and of aur_upload so far, in order. *)
LoginCalls == Select("aur_login")
UploadCalls == Select("aur_upload")
UploadedPaths == [k \in 1..Len(UploadCalls) |-> UploadCalls[k].path]

(* The last login call returned success. *)
Authenticated ==
  LoginCalls # << >> /\ LoginCalls[Len(LoginCalls)].ret = 0

ExpiryWarning ==
  Stderr("warning: Your cookie has expired -- using password login")

(* The places of the login calls in trace. *)
LoginAt == { p \in 1..Len(trace) : trace[p].ev = "aur_login" }

(* C1: at most two login calls are made; the first is cookie-based         *)
(* (use_credentials false) and the second, if any, password-based.         *)
C1_AtMostTwoLogins ==
  /\ Len(LoginCalls) <= 2
  /\ Len(LoginCalls) >= 1 => LoginCalls[1].use_credentials = FALSE
  /\ Len(LoginCalls) >= 2 => LoginCalls[2].use_credentials = TRUE

C1_Witness == Len(LoginCalls) = 2

(* C2: when the cookie login fails with "cookie expired" and the password  *)
(* login that follows succeeds, there are exactly two login calls, the     *)
(* expiry warning is printed between them, and main is in its upload loop  *)
(* or has left it with every target uploaded.                              *)
C2_ExpiredThenPassword ==
  (/\ Len(LoginCalls) >= 2
   /\ LoginCalls[1].ret = -EKEYEXPIRED
   /\ LoginCalls[2].ret = 0)
  => /\ Len(LoginCalls) = 2
     /\ \E p1, p2 \in LoginAt :
          /\ p1 < p2
          /\ \E w \in (p1 + 1)..(p2 - 1) : trace[w] = ExpiryWarning
          /\ \A w \in 1..Len(trace) : trace[w] = ExpiryWarning => p1 < w /\ w < p2
     /\ \/ pc = "upload"
        \/ pc = "exit" /\ UploadedPaths = targets

C2_Witness ==
  /\ Len(LoginCalls) = 2
  /\ LoginCalls[1].ret = -EKEYEXPIRED
  /\ LoginCalls[2].ret = 0
  /\ pc = "exit"
  /\ Len(targets) > 0

(* C3: when the cookie login fails with an error other than "cookie        *)
(* expired" and "key not found", main fails after that one login call: no  *)
(* password login is tried.                                                *)
C3_NoFallback ==
  (/\ LoginCalls # << >>
   /\ LoginCalls[1].ret < 0
   /\ LoginCalls[1].ret \notin {-EKEYEXPIRED, -ENOKEY})
  => /\ Len(LoginCalls) = 1
     /\ pc = "exit"
     /\ status = EXIT_FAILURE

C3_Witness ==
  /\ LoginCalls # << >>
  /\ LoginCalls[1].ret = -EACCES
  /\ pc = "exit"

(* C4: once the login has failed for good (the last login call returned an *)
(* error and no password login is pending) main has returned EXIT_FAILURE  *)
(* and has made no upload call; and every upload call comes after a login  *)
(* call that returned success, the last login call made.                   *)
C4_NoUploadWithoutLogin ==
  /\ (/\ LoginCalls # << >>
      /\ LoginCalls[Len(LoginCalls)].ret < 0
      /\ pc # "relogin")
     => /\ pc = "exit"
        /\ status = EXIT_FAILURE
        /\ UploadCalls = << >>
  /\ \A p \in 1..Len(trace) :
       trace[p].ev = "aur_upload"
       => /\ \E q \in LoginAt : q < p /\ trace[q].ret = 0
          /\ \A q \in LoginAt : q < p
          /\ Authenticated

C4_Witness ==
  /\ Len(LoginCalls) = 2
  /\ LoginCalls[2].ret < 0
  /\ pc = "exit"
  /\ Len(targets) > 0

(* C5: after a successful login aur_upload is called once for each target, *)
(* in the order of the targets, whatever the uploads return: in the loop   *)
(* the calls made are those of the first i-1 targets, and main leaves the  *)
(* loop only with the calls of all of them.                                *)
C5_EveryTargetInOrder ==
  /\ pc = "upload" => /\ i \in 1..(Len(targets) + 1)
                      /\ UploadedPaths = SubSeq(targets, 1, i - 1)
  /\ (pc = "exit" /\ Authenticated) => UploadedPaths = targets
  /\ ~Authenticated => UploadCalls = << >>

C5_Witness ==
  /\ pc = "exit"
  /\ Len(targets) = 3
  /\ Len(UploadCalls) = 3
  /\ UploadCalls[1].ret # 0
  /\ UploadCalls[3].ret = 0

(* The upload calls that failed, in order. *)
FailedUploads == SelectSeq(UploadCalls, LAMBDA e : e.ret # 0)

(* C6 as claimed: when uploads fail, the exit status is the failure code   *)
(* of the first target that failed.                                        *)
C6_ExitStatusIsFirstFailureCode ==
  (pc = "exit" /\ FailedUploads # << >>) => status = FailedUploads[1].ret

(* C6, amended: when uploads fail, main's r is the failure code of the     *)
(* first target that failed (a later failure never replaces it) and the    *)
(* exit status is EXIT_FAILURE.                                            *)
C6_FirstFailureKept ==
  FailedUploads # << >>
  => /\ r = FailedUploads[1].ret
     /\ pc = "exit" => status = EXIT_FAILURE

C6_Witness ==
  /\ pc = "exit"
  /\ Len(UploadCalls) = 3
  /\ UploadCalls[1].ret = 0
  /\ UploadCalls[2].ret = -EIO
  /\ UploadCalls[3].ret = 0

(* C7: main returns 0 exactly when the login ended in success and every    *)
(* target was uploaded with success; otherwise it returns EXIT_FAILURE.    *)
C7_ExitCode ==
  pc = "exit"
  => /\ status \in {EXIT_SUCCESS, EXIT_FAILURE}
     /\ status = 0 <=> /\ Authenticated
                       /\ Len(UploadCalls) = Len(targets)
                       /\ \A k \in 1..Len(UploadCalls) : UploadCalls[k].ret = 0

C7_Witness ==
  /\ pc = "exit"
  /\ status = 0
  /\ Len(targets) = 2

(* The parameters are as main starts with them (lines 41-46). *)
ParametersUntouched ==
  /\ arg_username = NULL
  /\ arg_password = NULL
  /\ arg_cookiefile = NULL
  /\ arg_persist_cookies = FALSE
  /\ arg_category = << "1" >>

OpenError(p) ==
  /\ trace[p].ev = "stderr"
  /\ trace[p].msg = "error: failed to open %s: %s"

(* C10: when fopen fails because the file does not exist, no error is      *)
(* printed, no line is read, main does not return there but goes on to     *)
(* parseargs, where the parameters still have their values; when fopen     *)
(* fails for another reason, the error is printed and main returns         *)
(* EXIT_FAILURE without a login call.                                      *)
C10_MissingOrUnreadable ==
  \A p \in 1..Len(trace) :
    trace[p].ev = "fopen"
    => /\ trace[p].errno = ENOENT
          => /\ \A q \in 1..Len(trace) : ~OpenError(q)
             /\ conf = << >>
             /\ pc \notin {"read_config", "fgets", "crashed"}
             /\ pc = "exit" => (optind > 0 \/ Len(trace) > p)
             /\ (pc = "parseargs" /\ optind = 0)
                => /\ status = Running
                   /\ Len(trace) = p
                   /\ ParametersUntouched
       /\ trace[p].errno \notin {0, ENOENT}
          => /\ Len(trace) = p + 1
             /\ OpenError(p + 1)
             /\ pc = "exit"
             /\ status = EXIT_FAILURE
             /\ LoginCalls = << >>

C10_Witness ==
  /\ trace # << >>
  /\ trace[1].ev = "fopen"
  /\ trace[1].errno = EACCES
  /\ pc = "exit"

C10_WitnessMissing ==
  /\ trace # << >>
  /\ trace[1].ev = "fopen"
  /\ trace[1].errno = ENOENT
  /\ pc = "login"

(* The id of the entry that a scan of the table from its first entry      *)
(* finds under the name, NULL when there is none.                          *)
LinearScan(name) ==
  LET hits == { k \in 1..Len(categories) : categories[k].name = name }
  IN  IF hits = { } THEN NULL
      ELSE categories[CHOOSE k \in hits : \A j \in hits : k <= j].id

(* parseargs has read the -c option of the command line. *)
CategoryRead == optind = 1 /\ Len(argv) = 1 /\ argv[1].opt = "c"

(* C9: the names of the table are in strictly ascending order, and the id  *)
(* that -c NAME leaves in arg_category is the one a linear scan finds for  *)
(* exactly that name, a non-empty string, and NULL when the table does not *)
(* hold the name.                                                          *)
C9_CategoryLookup ==
  /\ \A k \in 1..(Len(categories) - 1) :
       strcmp(categories[k].name, categories[k + 1].name) < 0
  /\ CategoryRead
     => /\ arg_category = LinearScan(argv[1].arg)
        /\ argv[1].arg \in CategoryNames
           => arg_category # NULL /\ arg_category # << >>
        /\ argv[1].arg \notin CategoryNames => arg_category = NULL

C9_Witness ==
  /\ CategoryRead
  /\ argv[1].arg = <<"x","f","c","e">>
  /\ arg_category = <<"1","8">>

(* What each line of Lines gives, as the format of the file has it        *)
(* (Key = Value, whitespace around either not counted, the Cookies value   *)
(* shell-expanded and dropped when it cannot be): the key, "" for none,    *)
(* and the value.                                                          *)
Given(line) ==
  CASE line = L_User -> [key |-> "User", value |-> <<"a">>]
    [] line = L_UserSpaced -> [key |-> "User", value |-> <<"b">>]
    [] line = L_Password -> [key |-> "Password", value |-> <<"p">>]
    [] line = L_Cookies -> [key |-> "Cookies", value |-> <<"/","h","/","c">>]
    [] line = L_Persist -> [key |-> "Persist", value |-> << >>]
    [] OTHER -> [key |-> "", value |-> << >>]

(* The value the configuration file gives for key: that of its last line   *)
(* with the key, NULL when it has none.                                    *)
ConfigValue(key) ==
  LET at == { k \in 1..Len(conf) : Given(conf[k]).key = key }
  IN  IF at = { } THEN NULL
      ELSE Given(conf[CHOOSE k \in at : \A j \in at : j <= k]).value

(* The value the command line gives with option opt: that of the last      *)
(* such option, NULL when it has none.                                     *)
CliValue(opt) ==
  LET at == { k \in 1..Len(argv) : argv[k].opt = opt }
  IN  IF at = { } THEN NULL
      ELSE argv[CHOOSE k \in at : \A j \in at : j <= k].arg

Merged(cli, cfg) == IF cli # NULL THEN cli ELSE cfg

(* C8: at the login, user name, password and cookie path are the value of  *)
(* the command line when it gives one, otherwise that of the configuration *)
(* file, otherwise unset; the domain is that of the command line or        *)
(* aur.archlinux.org; cookies persist exactly when the file has a Persist  *)
(* key or the command line has -k.                                         *)
C8_EffectiveParameters ==
  pc = "login"
  => /\ aur.username = Merged(CliValue("u"), ConfigValue("User"))
     /\ aur.password = Merged(CliValue("p"), ConfigValue("Password"))
     /\ aur.cookies = Merged(CliValue("C"), ConfigValue("Cookies"))
     /\ aur.domain = Merged(CliValue("domain"), <<"a","u","r",".","a","r","c","h","l","i","n","u","x",".","o","r","g">>)
     /\ aur.persist_cookies <=> \/ ConfigValue("Persist") # NULL
                                \/ \E k \in 1..Len(argv) : argv[k].opt = "k"

(* The key and the value a line of PaddedLines was written with. *)
PartsOf == [line \in PaddedLines |-> CHOOSE p \in PaddedParts : Padded(p) = line]
Parts(line) == PartsOf[line]

(* The value of the last line of conf written with key, NULL when conf has *)
(* no such line.                                                           *)
LastWritten(key) ==
  LET at == { k \in 1..Len(conf) :
                conf[k] \in PaddedLines /\ Parts(conf[k]).kv.key = key }
  IN  IF at = { } THEN NULL
      ELSE Parts(conf[CHOOSE k \in at : \A j \in at : j <= k]).kv.value

(* C11: whatever whitespace stands around the key and around the value of  *)
(* a line, the parameter gets the value without it, so "  User = alice  "  *)
(* and "User=alice" give the same user name; blank lines and lines whose   *)
(* first character after the whitespace is '#' change no parameter.        *)
C11_TrimmedKeyAndValue ==
  /\ pc # "crashed"
  /\ arg_username = LastWritten(K_User)
  /\ arg_password = LastWritten(K_Password)
  /\ arg_cookiefile = LastWritten(K_Cookies)
  /\ arg_persist_cookies <=> \E k \in 1..Len(conf) : conf[k] \in PersistLines

C11_Witness ==
  /\ Len(conf) = 2
  /\ conf[1] = Padded([lead |-> << " ", "\t" >>, kv |-> [key |-> K_User, value |-> V_User],
                       m1 |-> << " ", "\t" >>, m2 |-> << " ", "\t" >>,
                       trail |-> << " ", "\t" >>])
  /\ conf[2] \in IgnoredLines
  /\ arg_username = V_User

(* C12: when the cookie login fails with "key not found", the password     *)
(* login is the next thing main does: it is the second call and nothing is *)
(* printed between the two; the expiry warning is printed only when the    *)
(* cookie login failed with "cookie expired".                              *)
C12_SilentFallback ==
  /\ (LoginCalls # << >> /\ LoginCalls[1].ret = -ENOKEY)
     => /\ pc = "relogin" \/ Len(LoginCalls) = 2
        /\ Len(LoginCalls) = 2 => LoginCalls[2].use_credentials = TRUE
        /\ \A p \in LoginAt :
             (\A q \in LoginAt : p <= q)
             => /\ pc = "relogin" => Len(trace) = p
                /\ pc # "relogin" => trace[p + 1].ev = "aur_login"
        /\ \A w \in 1..Len(trace) : trace[w] # ExpiryWarning
  /\ (\E w \in 1..Len(trace) : trace[w] = ExpiryWarning)
     => LoginCalls # << >> /\ LoginCalls[1].ret = -EKEYEXPIRED

C12_Witness ==
  /\ Len(LoginCalls) = 2
  /\ LoginCalls[1].ret = -ENOKEY
  /\ LoginCalls[2].ret = 0
  /\ pc = "exit"
  /\ Len(targets) > 0

(* The message for each kind of login failure. *)
Diagnostic(ret) ==
  IF ret = -EBADR
    THEN Stderr("error: insufficient credentials provided to login.")
  ELSE IF ret = -EACCES
    THEN Stderr("error: bad username or password.")
  ELSE IF ret = -EKEYEXPIRED
    THEN Stderr("error: required login cookie has expired.")
  ELSE IF ret = -EKEYREJECTED
    THEN Stderr("error: login cookie not accepted.")
  ELSE [ev |-> "stderr", msg |-> "error: failed to login to AUR: %s",
        errno |-> -ret]

(* The places in trace where a login diagnostic is printed. *)
DiagnosticAt ==
  { p \in 1..Len(trace) :
      /\ trace[p].ev = "stderr"
      /\ trace[p].msg \in { Diagnostic(ret).msg : ret \in LoginResults \ {0} } }

(* C13: when the login has failed for good, the last thing printed is the  *)
(* message for the error of the last login call made (the second when      *)
(* there are two), it is the only login diagnostic, and main has returned  *)
(* EXIT_FAILURE; without such a failure no login diagnostic is printed.    *)
C13_DiagnosticOfLastLogin ==
  IF LoginCalls # << >> /\ LoginCalls[Len(LoginCalls)].ret < 0 /\ pc # "relogin"
    THEN /\ trace[Len(trace)] = Diagnostic(LoginCalls[Len(LoginCalls)].ret)
         /\ DiagnosticAt = { Len(trace) }
         /\ pc = "exit"
         /\ status = EXIT_FAILURE
    ELSE DiagnosticAt = { }

C13_Witness ==
  /\ Len(LoginCalls) = 2
  /\ LoginCalls[1].ret = -EKEYEXPIRED
  /\ LoginCalls[2].ret = -EBADR
  /\ trace[Len(trace)] = Stderr("error: insufficient credentials provided to login.")

(* The outcome reports printed so far, in order. *)
Reports ==
  SelectSeq(trace, LAMBDA e :
    /\ e.ev \in {"stdout", "stderr"}
    /\ e.msg \in {"success: uploaded %s", "failed to upload %s: %s"})

(* C14: there is one outcome report for each upload call, it follows the   *)
(* call at once (before the next call), names the target of the call and   *)
(* tells success from failure; so the reports name the targets in order.   *)
C14_OneReportPerTarget ==
  /\ Len(Reports) = Len(UploadCalls)
  /\ \A p \in 1..Len(trace) :
       trace[p].ev = "aur_upload"
       => /\ p < Len(trace)
          /\ trace[p + 1].ev = IF trace[p].ret = 0 THEN "stdout" ELSE "stderr"
          /\ trace[p + 1].msg = IF trace[p].ret = 0
                                  THEN "success: uploaded %s"
                                  ELSE "failed to upload %s: %s"
          /\ trace[p + 1].path = trace[p].path
  /\ [k \in 1..Len(Reports) |-> Reports[k].path]
       = SubSeq(targets, 1, Len(Reports))
  /\ (pc = "exit" /\ Authenticated) => Len(Reports) = Len(targets)

C14_Witness ==
  /\ pc = "exit"
  /\ Len(Reports) = 3
  /\ Reports[1].ev = "stdout"
  /\ Reports[2].ev = "stderr"
  /\ Reports[3].ev = "stdout"

CatalogIds == { categories[k].id : k \in 1..Len(categories) }

(* The -c options parseargs has read. *)
CategoriesRead == { k \in 1..optind : argv[k].opt = "c" }

(* C15: the category passed to aur_upload is never NULL: it is "1", which  *)
(* is the id of no entry of the table, when no -c option was read, and     *)
(* otherwise the id the table holds for the name of the last -c option.    *)
C15_CategoryValidated ==
  /\ << "1" >> \notin CatalogIds
  /\ \A k \in 1..Len(UploadCalls) :
       /\ UploadCalls[k].category # NULL
       /\ UploadCalls[k].category \in { << "1" >> } \cup CatalogIds
       /\ CategoriesRead = { } => UploadCalls[k].category = << "1" >>
       /\ CategoriesRead # { }
          => UploadCalls[k].category =
               LinearScan(argv[CHOOSE c \in CategoriesRead :
                                 \A j \in CategoriesRead : j <= c].arg)

C15_Witness ==
  /\ Len(argv) = 2
  /\ argv[1].arg = <<"g","a","m","e","s">>
  /\ argv[2].arg = <<"k","d","e">>
  /\ Len(UploadCalls) = 2
  /\ UploadCalls[2].category = << "9" >>

(* C16: when parseargs reads a -c option whose name is not in the table    *)
(* ("help" is not), it reads no further option; the last lines printed are *)
(* the error with the name, the header and every name of the table in the  *)
(* order of the table; main has returned EXIT_FAILURE and has made no      *)
(* login call and no upload call.                                          *)
C16_InvalidCategoryAborts ==
  \A k \in 1..optind :
    (argv[k].opt = "c" /\ argv[k].arg \notin CategoryNames)
    => /\ optind = k
       /\ pc = "exit"
       /\ status = EXIT_FAILURE
       /\ LoginCalls = << >>
       /\ UploadCalls = << >>
       /\ LET n == Len(categories)
              from == Len(trace) - n - 1
          IN  /\ from >= 1
              /\ trace[from] = [ev |-> "stderr",
                                msg |-> "error: invalid category %s",
                                name |-> argv[k].arg]
              /\ trace[from + 1] = Stderr("Valid categories:")
              /\ \A j \in 1..n :
                   trace[from + 1 + j] =
                     [ev |-> "stderr", msg |-> "\t%s", name |-> categories[j].name]

C16_Witness ==
  /\ optind = 2
  /\ argv[1] = Opt("c", <<"g","a","m","e","s">>)
  /\ argv[2] = Opt("c", <<"h","e","l","p">>)
  /\ pc = "exit"

(* The places in trace where a startup error is printed: an allocation     *)
(* that failed, a configuration file that cannot be opened, a category     *)
(* that is not in the table.                                               *)
StartupErrorAt ==
  { p \in 1..Len(trace) :
      /\ trace[p].ev = "stderr"
      /\ trace[p].msg \in { "error: failed to allocate memory",
                            "error: failed to open %s: %s",
                            "error: invalid category %s" } }

(* C17: after a startup error main has returned EXIT_FAILURE, without a    *)
(* login call or an upload call.                                           *)
C17_StartupErrorsFatal ==
  StartupErrorAt # { }
  => /\ pc = "exit"
     /\ status = EXIT_FAILURE
     /\ LoginCalls = << >>
     /\ UploadCalls = << >>

(* The Cookies lines of ConfigLines whose value wordexp cannot expand (a   *)
(* '|' in it) or expands to no word (it is empty).                         *)
ExpansionFails(line) == line \in { L_CookiesBar, L_CookiesEmpty }

(* C18: a Cookies line whose expansion fails stops nothing (the next line  *)
(* is read, or the options are) and leaves the cookie path as it was, so   *)
(* that the path is only ever unset or the expansion of a line that can be *)
(* expanded.                                                               *)
C18_ExpansionFailureSoft ==
  /\ arg_cookiefile \in { NULL, <<"/","h","/","c">> }
  /\ (conf # << >> /\ ExpansionFails(conf[Len(conf)])) => pc # "crashed"

(* C19: once parseargs has read -h the usage text has been printed and     *)
(* main makes no login call and no upload call.                            *)
C19_HelpTerminates ==
  (\E k \in 1..optind : argv[k].opt = "h")
  => /\ \E p \in 1..Len(trace) : trace[p] = usage[1]
     /\ LoginCalls = << >>
     /\ UploadCalls = << >>

(* C20: for every line read that names User, Password or Cookies, the      *)
(* value strsep and strtrim leave, which is copied or expanded, is not     *)
(* NULL, and the copy does not fault.                                      *)
C20_ValueNeverNull ==
  \A k \in 1..Len(conf) :
    config_line(conf[k]).field \in {"User", "Password", "Cookies"}
    => /\ config_line(conf[k]).value # NULL
       /\ (k = Len(conf) /\ conf[k] \in { L_UserBare, L_CookiesBare })
          => pc # "crashed"

=============================================================================
